---- MODULE Spec2Model ----
(***************************************************************************)
(* Model of mpool_replace.py: the message lifecycle / fee escalation       *)
(* engine, its epoch scheduler (chained threading.Timer callbacks), its   *)
(* JSON persistence and its termination handler.                          *)
(*                                                                         *)
(* Fees are Python floats in the source.  They are modelled in fixed      *)
(* point, one unit = 1/10000 FIL (0.35 FIL = 3500).  Every configuration   *)
(* used below keeps number * percentage / 100 an exact integer.            *)
(*                                                                         *)
(* Python dicts keep insertion order and the loops iterate over           *)
(* list(dict), so pending_messages and working_messages are sequences of  *)
(* records keyed by their cid field.                                       *)
(*                                                                         *)
(* The timer thread is modelled with one atomic step per stretch of code  *)
(* between two blocking calls to the node (lotus mpool pending, lotus     *)
(* mpool replace, lotus info); the signal handler runs in the main thread *)
(* and may interleave between any two such steps.                          *)
(***************************************************************************)
EXTENDS Integers, Sequences, FiniteSets, TLC

\* ------------------------------------------------------------------ bounds
MaxEpoch == 3
ScenarioMaxEpoch == 26
MaxStartEpoch == 1

\* message ids the node can report
CIDs == {"a", "b", "c"}

VARIABLES
    options,            \* parsed command line (never changes after start)
    pending_messages,   \* data["pending_messages"]: <<[cid, epoch]>>
    working_messages,   \* data["working_messages"]: <<[cid, start_epoch, ...]>>
    statistics,         \* data["statistics"]
    misc_data,          \* data["misc_data"]: the fee and age windows
    file,               \* the state file <data_dir>/mpool_replace.json
    main_pc,            \* main thread: "start", "sleep", "exited"
    tick_pc,            \* timer thread: "none", "timer", "fetch", "work",
                        \*   "sync", "cancelled", "dead", "ended"
    mpool_cids,         \* snapshot of the running / last pipeline
    work_list,          \* rest of list(working_messages) still to visit
    replace_calls,      \* replace commands issued by the running / last pipeline
    term_requested,     \* SIGTERM / KeyboardInterrupt has been handled
    worker_threads,     \* the Timers created, in order: "waiting" (started,
                        \*   interval running), "running" (callback
                        \*   executing), "finished", "cancelled", "unstarted"
    wall_epoch          \* the wall clock, in 30 s boundaries: the calibrated
                        \*   epoch plus the boundaries passed since then

vars == <<options, pending_messages, working_messages, statistics, misc_data,
          file, main_pc, tick_pc, mpool_cids, work_list, replace_calls,
          term_requested, worker_threads, wall_epoch>>

\* ------------------------------------------------------- sequence helpers
RECURSIVE SeqSum(_)
SeqSum(s) == IF s = <<>> THEN 0 ELSE Head(s) + SeqSum(Tail(s))

Range(s) == {s[i] : i \in 1..Len(s)}

\* keys of a dict, in insertion order and as a set
KeyList(d) == [i \in 1..Len(d) |-> d[i].cid]
Keys(d) == {d[i].cid : i \in 1..Len(d)}

\* d[cid]
Get(d, cid) == d[CHOOSE i \in 1..Len(d) : d[i].cid = cid]

\* del d[cid]
Del(d, cid) == SelectSeq(d, LAMBDA e : e.cid # cid)

\* d[e.cid] = e : an existing key keeps its position, a new key goes last
Put(d, e) ==
    IF e.cid \in Keys(d)
    THEN [i \in 1..Len(d) |-> IF d[i].cid = e.cid THEN e ELSE d[i]]
    ELSE Append(d, e)

\* the listings tried: every set of ids in the node's order, and one
\* listing in another order
CidOrder == <<"a", "b", "c">>
Listings ==
    {SelectSeq(CidOrder, LAMBDA c : c \in S) : S \in SUBSET CIDs}
        \cup {<<"b", "a">>}

\* round(p / q) for p >= 0, q > 0, ties to even (Python round)
RoundDiv(p, q) ==
    LET d == p \div q
        r == p % q
    IN  IF 2 * r < q THEN d
        ELSE IF 2 * r > q THEN d + 1
        ELSE IF d % 2 = 0 THEN d ELSE d + 1

Max2(x, y) == IF x > y THEN x ELSE y


\* ----------------------------------------------------------- configuration
\* parse_args: --max-fee is declared type=str, so max_fee is the float
\* default 1.5 only when neither the flag nor MAX_FEE is given; otherwise it
\* is a string (max_fee_is_str) and comparing a float with it raises.
BaseOptions ==
    [min_fee |-> 10000, max_fee |-> 15000, max_fee_is_str |-> FALSE,
     pending_wait_epochs |-> 1, working_wait_epochs |-> 1,
     working_fee_increase |-> 100, working_fee_mode |-> "linear",
     max_average_fee_epochs |-> 2, max_average_age_epochs |-> 2,
     data_dir |-> TRUE]

\* the documented defaults: 0.35 / 1.5 FIL, 20 and 2 epochs, 25 %, linear
ScenarioOptions ==
    [min_fee |-> 3500, max_fee |-> 15000, max_fee_is_str |-> FALSE,
     pending_wait_epochs |-> 20, working_wait_epochs |-> 2,
     working_fee_increase |-> 25, working_fee_mode |-> "linear",
     max_average_fee_epochs |-> 2880, max_average_age_epochs |-> 2880,
     data_dir |-> TRUE]

EpochCap == IF options = ScenarioOptions THEN ScenarioMaxEpoch ELSE MaxEpoch

\* ------------------------------------------------------------------- data
DefaultStatistics ==
    [current_epoch |-> 0, total_pending |-> 0, total_worked |-> 0,
     total_replaced |-> 0, max_fee |-> 0, avg_fee |-> 0,
     max_age |-> 0, avg_age |-> 0]

DefaultMiscData == [fees |-> <<0>>, ages |-> <<0>>]

DefaultData ==
    [pending_messages |-> <<>>, working_messages |-> <<>>,
     statistics |-> DefaultStatistics, misc_data |-> DefaultMiscData]

\* the global dict `data` as one value
Data ==
    [pending_messages |-> pending_messages,
     working_messages |-> working_messages,
     statistics |-> statistics, misc_data |-> misc_data]

\* ------------------------------------------------------------- state file
\* A JSON document: an object is the sequence of its members (key, value)
\* in the order written, an array the sequence of its elements, a number
\* the literal written: digits for an int, the repr of a float (the
\* shortest literal that reads back as the same float).  Fees and means
\* are floats, epochs, counters and ages are ints.
JsonInt(n) == [json |-> "int", value |-> n]

\* JsonFloat written with two decimals of a FIL (one unit is 1/10000 FIL)
JsonFloat_TwoDecimals(n) == [json |-> "float", value |-> 100 * (n \div 100)]

JsonFloat(n) == [json |-> "float", value |-> n]

JsonArray(elements) == [json |-> "array", items |-> elements]

JsonObject(members) == [json |-> "object", items |-> members]

FloatFields == {"round_fee", "last_round_fee", "max_fee", "avg_fee", "avg_age"}

MessageFields ==
    <<"start_epoch", "round_epoch", "round_fee", "last_round_fee",
      "total_age">>

StatisticsFields ==
    <<"current_epoch", "total_pending", "total_worked", "total_replaced",
      "max_fee", "avg_fee", "max_age", "avg_age">>

\* json.dump of a dict whose values are numbers, keys in dict order
DumpFields(rec, fields) ==
    JsonObject([i \in 1..Len(fields) |->
        [key |-> fields[i],
         value |-> IF fields[i] \in FloatFields
                   THEN JsonFloat(rec[fields[i]])
                   ELSE JsonInt(rec[fields[i]])]])

\* json.dump of the dict data
DumpData(d) ==
    JsonObject(<<
        [key |-> "pending_messages",
         value |-> JsonObject([i \in 1..Len(d.pending_messages) |->
             [key |-> d.pending_messages[i].cid,
              value |-> JsonInt(d.pending_messages[i].epoch)]])],
        [key |-> "working_messages",
         value |-> JsonObject([i \in 1..Len(d.working_messages) |->
             [key |-> d.working_messages[i].cid,
              value |-> DumpFields(d.working_messages[i], MessageFields)]])],
        [key |-> "statistics",
         value |-> DumpFields(d.statistics, StatisticsFields)],
        [key |-> "misc_data",
         value |-> JsonObject(<<
             [key |-> "fees",
              value |-> JsonArray([i \in 1..Len(d.misc_data.fees) |->
                            JsonFloat(d.misc_data.fees[i])])],
             [key |-> "ages",
              value |-> JsonArray([i \in 1..Len(d.misc_data.ages) |->
                            JsonInt(d.misc_data.ages[i])])]>>)]>>)

\* json.load of an object: d[key]
Member(object, key) ==
    object.items[CHOOSE i \in 1..Len(object.items) :
                    object.items[i].key = key].value

\* json.load of numbers and of an array of numbers
LoadNumbers(array) == [i \in 1..Len(array.items) |-> array.items[i].value]

\* json.load of the document: the dict data
LoadData(doc) ==
    LET pend == Member(doc, "pending_messages")
        work == Member(doc, "working_messages")
        stat == Member(doc, "statistics")
        misc == Member(doc, "misc_data")
        Field(object, key) == Member(object, key).value
    IN  [pending_messages |->
             [i \in 1..Len(pend.items) |->
                 [cid |-> pend.items[i].key,
                  epoch |-> pend.items[i].value.value]],
         working_messages |->
             [i \in 1..Len(work.items) |->
                 LET m == work.items[i].value
                 IN  [cid |-> work.items[i].key,
                      start_epoch |-> Field(m, "start_epoch"),
                      round_epoch |-> Field(m, "round_epoch"),
                      round_fee |-> Field(m, "round_fee"),
                      last_round_fee |-> Field(m, "last_round_fee"),
                      total_age |-> Field(m, "total_age")]],
         statistics |->
             [current_epoch |-> Field(stat, "current_epoch"),
              total_pending |-> Field(stat, "total_pending"),
              total_worked |-> Field(stat, "total_worked"),
              total_replaced |-> Field(stat, "total_replaced"),
              max_fee |-> Field(stat, "max_fee"),
              avg_fee |-> Field(stat, "avg_fee"),
              max_age |-> Field(stat, "max_age"),
              avg_age |-> Field(stat, "avg_age")],
         misc_data |->
             [fees |-> LoadNumbers(Member(misc, "fees")),
              ages |-> LoadNumbers(Member(misc, "ages"))]]

\* status "absent": no file; "corrupt": a file json.load rejects;
\* "ok": a document written by json.dump (doc is meaningful only then)
AbsentFile == [status |-> "absent", doc |-> DumpData(DefaultData)]
CorruptFile == [status |-> "corrupt", doc |-> DumpData(DefaultData)]
OkFile(doc) == [status |-> "ok", doc |-> doc]

\* export_data, lines 445-449: the file holds json.dump(data)
JsonDump(d) == OkFile(DumpData(d))

\* import_data, line 440: data = json.load(f)
JsonLoad(f) == LoadData(f.doc)

\* State files left by an earlier run started with --min-fee 0.6 whose
\* epoch calibration failed (epochs counted from 0): message b was first
\* listed at epoch 1 and promoted at epoch 2.
\* EarlierRunData: b waits for its first round.
EarlierRunData ==
    [DefaultData EXCEPT
        !.working_messages =
            <<[cid |-> "b", start_epoch |-> 1, round_epoch |-> 1,
               round_fee |-> 6000, last_round_fee |-> 6000, total_age |-> 0]>>,
        !.statistics = [DefaultStatistics EXCEPT !.current_epoch = 2,
                                                 !.total_pending = 1,
                                                 !.total_worked = 1]]

\* EscalatedRunData: with 100 % linear steps, b was refused twice with too
\* low GasPremium (0.6 -> 1.2 -> 1.8).
EscalatedRunData ==
    [DefaultData EXCEPT
        !.working_messages =
            <<[cid |-> "b", start_epoch |-> 1, round_epoch |-> 1,
               round_fee |-> 18000, last_round_fee |-> 6000, total_age |-> 0]>>,
        !.statistics = [DefaultStatistics EXCEPT !.current_epoch = 3,
                                                 !.total_pending = 1,
                                                 !.total_worked = 1]]

\* TwoChainsRunData: b and c were listed together and promoted together.
TwoChainsRunData ==
    [EarlierRunData EXCEPT
        !.working_messages =
            <<[cid |-> "b", start_epoch |-> 1, round_epoch |-> 1,
               round_fee |-> 6000, last_round_fee |-> 6000, total_age |-> 0],
              [cid |-> "c", start_epoch |-> 1, round_epoch |-> 1,
               round_fee |-> 6000, last_round_fee |-> 6000, total_age |-> 0]>>,
        !.statistics = [DefaultStatistics EXCEPT !.current_epoch = 2,
                                                 !.total_pending = 2,
                                                 !.total_worked = 2]]

\* the starts explored: command line and state file found
Starts ==
    { <<BaseOptions, AbsentFile>>,
      <<BaseOptions, CorruptFile>>,
      <<BaseOptions, JsonDump(EarlierRunData)>>,
      <<[BaseOptions EXCEPT !.working_fee_mode = "exponential"],
        JsonDump(EarlierRunData)>>,
      <<[BaseOptions EXCEPT !.working_fee_mode = "quadratic"],
        JsonDump(EarlierRunData)>>,
      <<[BaseOptions EXCEPT !.min_fee = 3500, !.working_fee_increase = 25],
        JsonDump(EarlierRunData)>>,
      <<[BaseOptions EXCEPT !.working_wait_epochs = 0],
        JsonDump(EscalatedRunData)>>,
      <<[BaseOptions EXCEPT !.data_dir = FALSE], AbsentFile>>,
      <<[BaseOptions EXCEPT !.max_fee_is_str = TRUE],
        JsonDump(TwoChainsRunData)>> }

\* ------------------------------------------------------- fee escalation
calc_perc(number, percentage) == (number * percentage) \div 100

\* get_next_round_fee taking the linear step from the current fee
get_next_round_fee_Compound(opts, current_fee) ==
    IF opts.working_fee_mode \in {"linear", "exponential"}
    THEN current_fee + calc_perc(current_fee, opts.working_fee_increase)
    ELSE current_fee

\* lines 294-301
get_next_round_fee(opts, current_fee) ==
    IF opts.working_fee_mode = "linear"
    THEN current_fee + calc_perc(opts.min_fee, opts.working_fee_increase)
    ELSE IF opts.working_fee_mode = "exponential"
    THEN current_fee + calc_perc(current_fee, opts.working_fee_increase)
    ELSE current_fee


\* ------------------------------------------------------ lifecycle tracker
NoSnapshot == [status |-> "none", cids |-> <<>>]

\* IsNew forgetting the working dict
IsNew_PendingOnly(cid, pend, work) == cid \notin Keys(pend)

\* line 169: an id of the snapshot is new when neither dict tracks it
IsNew(cid, pend, work) == cid \notin Keys(pend) /\ cid \notin Keys(work)

\* lines 168-173: enqueue the new ids of the snapshot, in listing order
RECURSIVE EnqueueNew(_, _, _, _)
EnqueueNew(cids, pend, work, epoch) ==
    IF cids = <<>> THEN pend
    ELSE EnqueueNew(Tail(cids),
                    IF IsNew(Head(cids), pend, work)
                    THEN Append(pend, [cid |-> Head(cids), epoch |-> epoch])
                    ELSE pend,
                    work, epoch)

\* PromotionDue with >= in place of >
PromotionDue_Geq(epoch, enqueue_epoch, opts) ==
    epoch >= enqueue_epoch + opts.pending_wait_epochs

\* line 184: the grace period is over
PromotionDue(epoch, enqueue_epoch, opts) ==
    epoch > enqueue_epoch + opts.pending_wait_epochs

\* PromotedEntry starting the first round at the promotion epoch
PromotedEntry_RoundRestarts(cid, enqueue_epoch, opts) ==
    [cid |-> cid, start_epoch |-> enqueue_epoch,
     round_epoch |-> enqueue_epoch + opts.pending_wait_epochs + 1,
     round_fee |-> opts.min_fee, last_round_fee |-> opts.min_fee,
     total_age |-> 0]

\* lines 187-193: the entry a promoted id starts with
PromotedEntry(cid, enqueue_epoch, opts) ==
    [cid |-> cid, start_epoch |-> enqueue_epoch, round_epoch |-> enqueue_epoch,
     round_fee |-> opts.min_fee, last_round_fee |-> opts.min_fee,
     total_age |-> 0]

\* lines 176-198: for cid in list(pending_messages); result is the two
\* dicts and the number of promotions
RECURSIVE PendingPass(_, _, _, _, _, _, _)
PendingPass(keys, pend, work, n, snapshot, epoch, opts) ==
    IF keys = <<>> THEN [pend |-> pend, work |-> work, n |-> n]
    ELSE
      LET cid == Head(keys)
          enq == Get(pend, cid).epoch
      IN  IF cid \notin Range(snapshot)
          THEN PendingPass(Tail(keys), Del(pend, cid), work, n,
                           snapshot, epoch, opts)
          ELSE IF cid \notin Keys(work) /\ PromotionDue(epoch, enq, opts)
          THEN PendingPass(Tail(keys), Del(pend, cid),
                           Put(work, PromotedEntry(cid, enq, opts)), n + 1,
                           snapshot, epoch, opts)
          ELSE PendingPass(Tail(keys), pend, work, n, snapshot, epoch, opts)

\* RoundDue with >= in place of >
RoundDue_Geq(epoch, message, opts) ==
    epoch >= message.round_epoch + opts.working_wait_epochs

\* line 230: an escalation round is due
RoundDue(epoch, message, opts) ==
    epoch > message.round_epoch + opts.working_wait_epochs

\* FeeToExecute without the cap
FeeToExecute_NoCap(round_fee, opts) == round_fee

\* line 232: the fee limit passed to lotus mpool replace
FeeToExecute(round_fee, opts) ==
    IF round_fee <= opts.max_fee THEN round_fee ELSE opts.max_fee

\* TooLowUpdate leaving the fee as it is
TooLowUpdate_NoRaise(message, opts) == message

\* lines 241-243: too low GasPremium, the fee is raised in place
TooLowUpdate(message, opts) ==
    [message EXCEPT !.round_fee = get_next_round_fee(opts, message.round_fee)]

\* ReplacedEntry starting the chain anew at the replacement epoch
ReplacedEntry_StartRestarts(new_cid, message, fee_to_execute, epoch, opts) ==
    [cid |-> new_cid, start_epoch |-> epoch,
     round_epoch |-> epoch,
     round_fee |-> get_next_round_fee(opts, message.round_fee),
     last_round_fee |-> fee_to_execute,
     total_age |-> 0]

\* lines 251-259: the entry that tracks the replacement message
ReplacedEntry(new_cid, message, fee_to_execute, epoch, opts) ==
    [cid |-> new_cid, start_epoch |-> message.start_epoch,
     round_epoch |-> epoch,
     round_fee |-> get_next_round_fee(opts, message.round_fee),
     last_round_fee |-> fee_to_execute,
     total_age |-> epoch - message.start_epoch]

\* lines 211-213 / 217-219: append a sample, drop the oldest beyond the cap
WindowPush(window, sample, cap) ==
    LET w == Append(window, sample)
    IN  IF Len(w) > cap THEN Tail(w) ELSE w

\* lines 208-221: statistics of a working message that left the mpool;
\* avg_fee is rounded to 4 decimals (one fee unit), avg_age to 2 decimals
\* (kept in hundredths of an epoch), max_age is kept in epochs
DepartureStats(stats, misc, message, opts) ==
    LET fees == WindowPush(misc.fees, message.last_round_fee,
                           opts.max_average_fee_epochs)
        ages == WindowPush(misc.ages, message.total_age,
                           opts.max_average_age_epochs)
    IN  [misc |-> [fees |-> fees, ages |-> ages],
         stats |-> [stats EXCEPT
             !.avg_fee = RoundDiv(SeqSum(fees), Len(fees)),
             !.max_fee = Max2(message.last_round_fee, stats.max_fee),
             !.avg_age = RoundDiv(100 * SeqSum(ages), Len(ages)),
             !.max_age = Max2(message.total_age, stats.max_age)]]


\* ---------------------------------------------------------- initial state
\* module level, lines 92-123 and 452: default data, handler installed
InitWith(opts, f) ==
    /\ options = opts
    /\ pending_messages = DefaultData.pending_messages
    /\ working_messages = DefaultData.working_messages
    /\ statistics = DefaultData.statistics
    /\ misc_data = DefaultData.misc_data
    /\ file = f
    /\ main_pc = "start"
    /\ tick_pc = "none"
    /\ mpool_cids = NoSnapshot
    /\ work_list = <<>>
    /\ replace_calls = <<>>
    /\ term_requested = FALSE
    /\ worker_threads = <<>>
    /\ wall_epoch = 0

Init == \E st \in Starts : InitWith(st[1], st[2])

InitScenario == InitWith(ScenarioOptions, AbsentFile)

\* ---------------------------------------------------------- timer threads
\* the Timers of worker_threads that are in a given state
WithStatus(status) ==
    {i \in 1..Len(worker_threads) : worker_threads[i] = status}

\* TimerStarted creating and starting a second Timer
TimerStarted_Twice(threads) == Append(Append(threads, "waiting"), "waiting")

\* lines 372-374 and 406-408: one Timer is created, appended to
\* worker_threads and started
TimerStarted(threads) == Append(threads, "waiting")

\* run_every_epoch returns: the Timer thread that ran it is over
CallbackReturned(threads) ==
    [i \in 1..Len(threads) |->
        IF threads[i] = "running" THEN "finished" ELSE threads[i]]

\* line 424, Timer.cancel(): a Timer still waiting never fires; there is
\* no effect on one whose callback is running or has returned
Cancelled(status) == IF status = "waiting" THEN "cancelled" ELSE status

\* ---------------------------------------------------------------- actions
\* main, lines 389-410: import_data (lines 433-443), calibration of the
\* epoch (get_current_epoch returns False, i.e. 0, on failure) and the
\* first Timer.  json.load failing on an unparsable file is not caught by
\* import_data; it lands in main's handler at line 409, past the
\* calibration and the Timer.
main(chain_epoch) ==
    /\ main_pc = "start"
    /\ main_pc' = "sleep"
    /\ IF options.data_dir /\ file.status = "corrupt"
       THEN UNCHANGED <<pending_messages, working_messages, statistics,
                        misc_data, file, tick_pc, worker_threads,
                        wall_epoch>>
       ELSE LET loaded == IF options.data_dir /\ file.status = "ok"
                          THEN JsonLoad(file) ELSE Data
            IN  /\ pending_messages' = loaded.pending_messages
                /\ working_messages' = loaded.working_messages
                /\ statistics' = [loaded.statistics EXCEPT
                                      !.current_epoch = chain_epoch]
                /\ misc_data' = loaded.misc_data
                /\ file' = IF options.data_dir /\ file.status = "absent"
                           THEN JsonDump(Data) ELSE file
                /\ tick_pc' = "timer"
                /\ worker_threads' = TimerStarted(worker_threads)
                /\ wall_epoch' = chain_epoch
    /\ UNCHANGED <<options, mpool_cids, work_list, replace_calls,
                   term_requested>>

\* run_every_epoch, lines 338-347: the Timer fires, the epoch is ticked and
\* the data is exported before the pipeline runs.  export_data raising
\* (the file cannot be opened) is caught at line 355, past the pipeline and
\* past thread_scheduler.
TickBegin(export_ok) ==
    /\ tick_pc = "timer"
    /\ WithStatus("waiting") # {}
    /\ statistics.current_epoch < EpochCap
    /\ wall_epoch' = wall_epoch + 1
    /\ LET fired == CHOOSE i \in WithStatus("waiting") :
                        \A j \in WithStatus("waiting") : i <= j
       IN  worker_threads' =
              [worker_threads EXCEPT ![fired] =
                  IF options.data_dir /\ ~export_ok
                  THEN "finished" ELSE "running"]
    /\ statistics' = [statistics EXCEPT !.current_epoch = @ + 1]
    /\ IF options.data_dir
       THEN IF export_ok
            THEN /\ file' = JsonDump([Data EXCEPT !.statistics = statistics'])
                 /\ tick_pc' = "fetch"
            ELSE /\ file' = file
                 /\ tick_pc' = "dead"
       ELSE /\ export_ok
            /\ file' = file
            /\ tick_pc' = "fetch"
    /\ UNCHANGED <<options, pending_messages, working_messages, misc_data,
                   main_pc, mpool_cids, work_list, replace_calls,
                   term_requested>>

\* ListingError overlooking what the command wrote to stderr
ListingError_Ignored(listing_ok) == FALSE

\* line 160: if stderr, the listing reported an error
ListingError(listing_ok) == ~listing_ok

\* processing_pipeline, lines 155-198: the listing, the new ids and the
\* pending loop.  A listing that reports an error ends the pipeline.
Fetch(listing_ok, cids) ==
    /\ tick_pc = "fetch"
    /\ ~listing_ok => cids = <<>>
    /\ replace_calls' = <<>>
    /\ mpool_cids' = [status |-> IF listing_ok THEN "ok" ELSE "failed",
                      cids |-> cids]
    /\ IF ListingError(listing_ok)
       THEN /\ work_list' = <<>>
            /\ tick_pc' = "sync"
            /\ UNCHANGED <<pending_messages, working_messages, statistics>>
       ELSE LET epoch == statistics.current_epoch
                pend1 == EnqueueNew(cids, pending_messages, working_messages,
                                    epoch)
                pp == PendingPass(KeyList(pend1), pend1, working_messages, 0,
                                  cids, epoch, options)
            IN  /\ pending_messages' = pp.pend
                /\ working_messages' = pp.work
                /\ statistics' = [statistics EXCEPT
                       !.total_pending = @ + Len(pend1) - Len(pending_messages),
                       !.total_worked = @ + pp.n]
                /\ work_list' = KeyList(pp.work)
                /\ tick_pc' = IF pp.work = <<>> THEN "sync" ELSE "work"
    /\ UNCHANGED <<options, misc_data, file, main_pc, term_requested,
                   worker_threads, wall_epoch>>

\* the record of one lotus mpool replace command
ReplaceCall(message, fee, epoch, result, new_cid) ==
    [cid |-> message.cid, fee |-> fee, epoch |-> epoch, message |-> message,
     result |-> result, new_cid |-> new_cid]

\* a cid the node can give to a replacement message: not tracked and not
\* in the listing of this tick
Fresh(cid) ==
    /\ cid \notin Keys(pending_messages)
    /\ cid \notin Keys(working_messages)
    /\ cid \notin Range(mpool_cids.cids)

\* processing_pipeline, lines 202-267: one iteration of the working loop.
\* result is what lotus mpool replace answers: "ok" with new_cid,
\* "too_low" (too low GasPremium), "error" (any other stderr); "none" when
\* the iteration issues no command.
WorkStep(result, new_cid) ==
    /\ tick_pc = "work"
    /\ work_list # <<>>
    /\ LET cid == Head(work_list)
           message == Get(working_messages, cid)
           epoch == statistics.current_epoch
           rest == Tail(work_list)
           fee == FeeToExecute(message.round_fee, options)
       IN
       IF cid \notin Range(mpool_cids.cids)
       THEN \* lines 206-225: left the mpool
            LET ds == DepartureStats(statistics, misc_data, message, options)
            IN  /\ result = "none" /\ new_cid = cid
                /\ misc_data' = ds.misc
                /\ statistics' = ds.stats
                /\ working_messages' = Del(working_messages, cid)
                /\ work_list' = rest
                /\ tick_pc' = IF rest = <<>> THEN "sync" ELSE "work"
                /\ UNCHANGED replace_calls
       ELSE IF ~RoundDue(epoch, message, options)
       THEN /\ result = "none" /\ new_cid = cid
            /\ work_list' = rest
            /\ tick_pc' = IF rest = <<>> THEN "sync" ELSE "work"
            /\ UNCHANGED <<working_messages, statistics, misc_data,
                           replace_calls>>
       ELSE IF options.max_fee_is_str
       THEN \* line 232 raises TypeError, caught at line 266
            /\ result = "none" /\ new_cid = cid
            /\ work_list' = <<>>
            /\ tick_pc' = "sync"
            /\ UNCHANGED <<working_messages, statistics, misc_data,
                           replace_calls>>
       ELSE /\ result \in {"ok", "too_low", "error"}
            /\ replace_calls' = Append(replace_calls,
                   ReplaceCall(message, fee, epoch, result, new_cid))
            /\ work_list' = rest
            /\ tick_pc' = IF rest = <<>> THEN "sync" ELSE "work"
            /\ UNCHANGED misc_data
            /\ IF result = "ok"
               THEN /\ Fresh(new_cid)
                    /\ working_messages' =
                          Del(Put(working_messages,
                                  ReplacedEntry(new_cid, message, fee, epoch,
                                                options)),
                              cid)
                    /\ statistics' = [statistics EXCEPT !.total_replaced = @ + 1]
               ELSE IF result = "too_low"
               THEN /\ new_cid = cid
                    /\ working_messages' =
                          Put(working_messages, TooLowUpdate(message, options))
                    /\ UNCHANGED statistics
               ELSE /\ new_cid = cid
                    /\ UNCHANGED <<working_messages, statistics>>
    /\ UNCHANGED <<options, pending_messages, file, main_pc, mpool_cids,
                   term_requested, worker_threads, wall_epoch>>

\* thread_scheduler, lines 359-381, called at the end of run_every_epoch:
\* one lotus info poll.  Out of sync: sleep to the next epoch start, tick
\* the epoch, poll again.  In sync: start the next Timer.  Once the main
\* thread has left (the interpreter is finalizing) Thread.start either
\* still works or raises RuntimeError, depending on the Python version;
\* the exception is caught at line 377 and the timer thread ends.
thread_scheduler(sync_ok, start_ok) ==
    /\ tick_pc = "sync"
    /\ IF ~sync_ok
       THEN /\ start_ok
            /\ statistics.current_epoch < EpochCap
            /\ statistics' = [statistics EXCEPT !.current_epoch = @ + 1]
            /\ wall_epoch' = wall_epoch + 1
            /\ UNCHANGED tick_pc
            /\ UNCHANGED worker_threads
       ELSE /\ ~start_ok => main_pc = "exited"
            /\ tick_pc' = IF start_ok THEN "timer" ELSE "ended"
            /\ worker_threads' =
                  IF start_ok
                  THEN TimerStarted(CallbackReturned(worker_threads))
                  ELSE Append(CallbackReturned(worker_threads), "unstarted")
            /\ UNCHANGED <<statistics, wall_epoch>>
    /\ UNCHANGED <<options, pending_messages, working_messages, misc_data,
                   file, main_pc, mpool_cids, work_list, replace_calls,
                   term_requested>>

\* cleanup_and_exit, lines 420-430, run by the main thread on SIGTERM or
\* KeyboardInterrupt: cancel() stops a Timer that has not fired yet and has
\* no effect on a callback that is running; the data is exported as it is
\* at that moment; exit(0) ends the main thread.
cleanup_and_exit(export_ok) ==
    /\ ~term_requested
    /\ main_pc \in {"start", "sleep"}
    /\ term_requested' = TRUE
    /\ main_pc' = "exited"
    /\ tick_pc' = IF tick_pc = "timer" THEN "cancelled" ELSE tick_pc
    /\ worker_threads' = [i \in 1..Len(worker_threads) |->
                             Cancelled(worker_threads[i])]
    /\ IF options.data_dir /\ export_ok
       THEN file' = JsonDump(Data)
       ELSE /\ ~export_ok => options.data_dir
            /\ file' = file
    /\ UNCHANGED <<options, pending_messages, working_messages, statistics,
                   misc_data, mpool_cids, work_list, replace_calls,
                   wall_epoch>>

\* A 30 s boundary passes while the callback is inside a lotus command,
\* in a tick that runs lotus mpool replace: communicate() (line 235) and
\* check_output (line 273) block, without a timeout, until the command
\* ends.  The Timer set afterwards waits 30 - (now.second % 30) seconds, to
\* the boundary after that one.  One such overrun is followed, in a run not
\* yet told to terminate; the clock is not followed further once it is
\* ahead of the counter.
BoundaryPasses ==
    /\ tick_pc \in {"work", "sync"}
    /\ replace_calls # <<>>
    /\ ~term_requested
    /\ wall_epoch = statistics.current_epoch
    /\ wall_epoch' = wall_epoch + 1
    /\ UNCHANGED <<options, pending_messages, working_messages, statistics,
                   misc_data, file, main_pc, tick_pc, mpool_cids, work_list,
                   replace_calls, term_requested, worker_threads>>

\* ---------------------------------------------------------- specification
Next ==
    \/ \E chain_epoch \in 0..MaxStartEpoch : main(chain_epoch)
    \/ \E export_ok \in BOOLEAN : TickBegin(export_ok)
    \/ \E listing_ok \in BOOLEAN, cids \in Listings :
           Fetch(listing_ok, cids)
    \/ \E result \in {"none", "ok", "too_low", "error"}, new_cid \in CIDs :
           WorkStep(result, new_cid)
    \/ \E sync_ok \in BOOLEAN, start_ok \in BOOLEAN :
           thread_scheduler(sync_ok, start_ok)
    \/ \E export_ok \in BOOLEAN : cleanup_and_exit(export_ok)

Spec == Init /\ [][Next]_vars

\* the documented scenario: defaults, a fresh start, a node that stays in
\* sync, listings that succeed, one message that is listed from the first
\* tick on and stays listed (under its new id after a replacement), no
\* termination
ScenarioListing ==
    IF pending_messages = <<>> /\ working_messages = <<>>
    THEN <<"a">>
    ELSE KeyList(pending_messages) \o KeyList(working_messages)

NextScenario ==
    \/ main(0)
    \/ TickBegin(TRUE)
    \/ Fetch(TRUE, ScenarioListing)
    \/ \E result \in {"none", "ok", "too_low", "error"}, new_cid \in CIDs :
           WorkStep(result, new_cid)
    \/ thread_scheduler(TRUE, TRUE)

SpecScenario == InitScenario /\ [][NextScenario]_vars

\* a run in which the node stays in sync, every listing succeeds, the file
\* can be written and no termination is requested
NextSteady ==
    \/ \E chain_epoch \in 0..MaxStartEpoch : main(chain_epoch)
    \/ TickBegin(TRUE)
    \/ \E cids \in Listings : Fetch(TRUE, cids)
    \/ \E result \in {"none", "ok", "too_low", "error"}, new_cid \in CIDs :
           WorkStep(result, new_cid)
    \/ thread_scheduler(TRUE, TRUE)

SpecSteady == Init /\ [][NextSteady]_vars

\* a run against the wall clock: the node may be out of sync and a listing
\* may fail, the file can be written, no termination is requested, and a
\* tick may overrun a 30 s boundary
NextClock ==
    \/ \E chain_epoch \in 0..MaxStartEpoch : main(chain_epoch)
    \/ TickBegin(TRUE)
    \/ \E listing_ok \in BOOLEAN, cids \in Listings :
           Fetch(listing_ok, cids)
    \/ \E result \in {"none", "ok", "too_low", "error"}, new_cid \in CIDs :
           WorkStep(result, new_cid)
    \/ \E sync_ok \in BOOLEAN : thread_scheduler(sync_ok, TRUE)
    \/ BoundaryPasses

SpecClock == Init /\ [][NextClock]_vars


\* ================================================================ claims
\* the pipeline is not running: the data is that of a tick boundary
AtTickBoundary == tick_pc \notin {"fetch", "work"}

CallSet == Range(replace_calls)

\* C1: at every tick boundary no message id is a key of both
\* pending_messages and working_messages.
C1_Disjoint ==
    AtTickBoundary => Keys(pending_messages) \cap Keys(working_messages) = {}

\* C1 witness: a tick has ended with both dicts populated, a replacement
\* made and the old id still listed
C1_Witness ==
    /\ tick_pc = "timer"
    /\ mpool_cids.status = "ok"
    /\ pending_messages # <<>>
    /\ working_messages # <<>>
    /\ \E call \in CallSet :
          /\ call.result = "ok"
          /\ call.cid \in Range(mpool_cids.cids)

\* ---- C2: the documented scenario, under SpecScenario.  The epoch is
\* calibrated to 0, so the message is first listed in the tick of epoch 1:
\* the claim's epochs 0, 20, 21, 24 are the epochs 1, 21, 22, 25 here.
ScenarioPromoted ==
    [cid |-> "a", start_epoch |-> 1, round_epoch |-> 1, round_fee |-> 3500,
     last_round_fee |-> 3500, total_age |-> 0]

ScenarioPendingOnly ==
    /\ pending_messages = <<[cid |-> "a", epoch |-> 1]>>
    /\ working_messages = <<>>

\* C2 as stated: the message stays Pending through epoch 20 (here 21), is
\* promoted at epoch 21 (22) with round_fee 0.35, no replacement is submitted
\* in the ticks of epochs 21-23 (22-24), and its first replacement is the one
\* at epoch 24 (25), with fee 0.35, giving a new entry with round_fee 0.4375.
C2_AsStated ==
    LET epoch == statistics.current_epoch
    IN  mpool_cids.status = "ok" =>
          /\ epoch <= 21 => ScenarioPendingOnly
          /\ (epoch = 22 /\ tick_pc = "work") =>
                /\ pending_messages = <<>>
                /\ working_messages = <<ScenarioPromoted>>
          /\ \A call \in CallSet :
                /\ call.epoch >= 25
                /\ call.message = ScenarioPromoted =>
                      /\ call.epoch = 25
                      /\ call.fee = 3500
                      /\ call.result = "ok" =>
                            Get(working_messages, call.new_cid).round_fee = 4375

\* C2 as amended: the message stays Pending through epoch 20 (21), is
\* promoted at epoch 21 (22) with round_fee 0.35 and its first replacement is
\* submitted in that same tick with fee 0.35; when it succeeds the new entry
\* has round_epoch 21 (22) and round_fee 0.4375, no replacement is submitted
\* for it at epochs 22 and 23 (23, 24), and the next one is at epoch 24 (25)
\* with fee 0.4375.
C2_Scenario ==
    LET epoch == statistics.current_epoch
        ended == tick_pc \in {"sync", "timer"}
    IN  mpool_cids.status = "ok" =>
          /\ epoch <= 21 => ScenarioPendingOnly /\ replace_calls = <<>>
          /\ (epoch = 22 /\ tick_pc = "fetch") => ScenarioPendingOnly
          /\ (epoch = 22 /\ tick_pc = "work") =>
                /\ pending_messages = <<>>
                /\ working_messages = <<ScenarioPromoted>>
                /\ replace_calls = <<>>
          /\ (epoch = 22 /\ ended) =>
                /\ Len(replace_calls) = 1
                /\ replace_calls[1].message = ScenarioPromoted
                /\ replace_calls[1].fee = 3500
                /\ replace_calls[1].epoch = 22
                /\ pending_messages = <<>>
                /\ replace_calls[1].result = "ok" =>
                      working_messages =
                         <<[cid |-> replace_calls[1].new_cid, start_epoch |-> 1,
                            round_epoch |-> 22, round_fee |-> 4375,
                            last_round_fee |-> 3500, total_age |-> 21]>>
          /\ \A call \in CallSet :
                /\ call.epoch >= 22
                /\ call.message.round_epoch = 22 =>
                      /\ call.epoch >= 25
                      /\ call.epoch = 25 => call.fee = 4375
          /\ (epoch = 25 /\ ended) =>
                \/ \E call \in CallSet : call.epoch = 25
                \/ /\ Len(working_messages) = 1
                   /\ working_messages[1].round_epoch \in {23, 24}

\* C2 witness: the replacement of epoch 21 (22) succeeded and the next one,
\* at epoch 24 (25), has been made with fee 0.4375
C2_Witness ==
    \E call \in CallSet :
       /\ call.epoch = 25
       /\ call.message.round_epoch = 22
       /\ call.message.round_fee = 4375
       /\ call.message.last_round_fee = 3500
       /\ call.fee = 4375
       /\ call.result = "ok"
       /\ Get(working_messages, call.new_cid).round_fee = 5250

\* C3: every replace command carries min(round_fee, max_fee), hence never
\* more than max_fee; a stored round_fee above max_fee is submitted as
\* exactly max_fee, and the stored round_fee never goes down after a round
\* and goes up in the linear and exponential modes, so it stays above.
C3_FeeCapped ==
    \A call \in CallSet :
       LET before == call.message.round_fee
           after == Get(working_messages, call.new_cid).round_fee
       IN  /\ call.fee <= options.max_fee
           /\ call.fee <= before
           /\ call.fee = before \/ call.fee = options.max_fee
           /\ before > options.max_fee => call.fee = options.max_fee
           /\ call.new_cid \in Keys(working_messages) =>
                 /\ call.result = "error" => after = before
                 /\ call.result # "error" => after >= before
                 /\ (/\ call.result # "error"
                     /\ options.working_fee_mode \in {"linear", "exponential"})
                       => after > before

\* C3 witness: a second capped round of a chain: the round before was
\* submitted at max_fee, this one is again, and round_fee is raised again
C3_Witness ==
    \E call \in CallSet :
       /\ call.message.last_round_fee = options.max_fee
       /\ call.message.round_fee > options.max_fee
       /\ call.fee = options.max_fee
       /\ call.result = "ok"
       /\ Get(working_messages, call.new_cid).round_fee
             > call.message.round_fee

\* C4: an id goes from Pending to Working only in a tick whose snapshot
\* lists it and whose epoch is strictly above enqueue epoch +
\* pending_wait_epochs, and its entry starts with start_epoch = round_epoch
\* = enqueue epoch, round_fee = last_round_fee = min_fee, total_age = 0.
C4_Promotion ==
    [][\A cid \in Keys(pending_messages) :
          (cid \notin Keys(working_messages) /\ cid \in Keys(working_messages'))
          => LET enq == Get(pending_messages, cid).epoch
             IN  /\ tick_pc = "fetch"
                 /\ cid \notin Keys(pending_messages')
                 /\ mpool_cids'.status = "ok"
                 /\ cid \in Range(mpool_cids'.cids)
                 /\ statistics.current_epoch > enq + options.pending_wait_epochs
                 /\ Get(working_messages', cid) =
                       [cid |-> cid, start_epoch |-> enq, round_epoch |-> enq,
                        round_fee |-> options.min_fee,
                        last_round_fee |-> options.min_fee, total_age |-> 0]
                 /\ statistics'.total_worked > statistics.total_worked
      ]_vars

\* C4 witness: the pending loop has just promoted an id seen by this run,
\* at the first epoch that allows it
C4_Witness ==
    /\ tick_pc = "work"
    /\ work_list = KeyList(working_messages)
    /\ \E i \in 1..Len(working_messages) :
          LET e == working_messages[i]
          IN  /\ e.cid = "a"
              /\ e.round_epoch = e.start_epoch
              /\ e.total_age = 0
              /\ e.cid \in Range(mpool_cids.cids)
              /\ statistics.current_epoch
                    = e.start_epoch + options.pending_wait_epochs + 1

\* C5: a replacement refused with too low GasPremium keeps the entry under
\* its id with round_fee raised to get_next_round_fee(round_fee) (0.6 ->
\* 0.6875 for linear, min_fee 0.35, 25 %) and nothing else changed: no new
\* id, same round_epoch, start_epoch, last_round_fee, total_age, same
\* total_replaced; the round is due again on the next tick.
C5_TooLow ==
    [][(/\ Len(replace_calls') = Len(replace_calls) + 1
        /\ replace_calls'[Len(replace_calls')].result = "too_low")
       => LET call == replace_calls'[Len(replace_calls')]
              old == Get(working_messages, call.cid)
              new == Get(working_messages', call.cid)
          IN  /\ call.message = old
              /\ KeyList(working_messages') = KeyList(working_messages)
              /\ pending_messages' = pending_messages
              /\ \A c \in Keys(working_messages) \ {call.cid} :
                    Get(working_messages', c) = Get(working_messages, c)
              /\ new.round_fee = get_next_round_fee(options, old.round_fee)
              /\ new = [old EXCEPT !.round_fee = new.round_fee]
              /\ (/\ options.working_fee_mode = "linear"
                  /\ options.min_fee = 3500
                  /\ options.working_fee_increase = 25
                  /\ old.round_fee = 6000) => new.round_fee = 6875
              /\ options.working_fee_mode = "linear" =>
                    new.round_fee > old.round_fee
              /\ statistics' = statistics
              /\ misc_data' = misc_data
              /\ statistics.current_epoch + 1
                    > new.round_epoch + options.working_wait_epochs
      ]_vars

\* C5 witness: the 0.6 -> 0.6875 case has happened
C5_Witness ==
    \E call \in CallSet :
       /\ call.result = "too_low"
       /\ options.working_fee_mode = "linear"
       /\ options.min_fee = 3500
       /\ options.working_fee_increase = 25
       /\ call.message.round_fee = 6000
       /\ call.cid \in Keys(working_messages)
       /\ Get(working_messages, call.cid).round_fee = 6875
       /\ statistics.total_replaced = 0


\* C6: with the state file absent or unparsable at startup the engine starts
\* from the empty state and startup goes on: once main has reached its wait
\* loop the epoch is calibrated and the first Timer is set, whatever file
\* was found.
C6_StartupProceeds ==
    main_pc = "sleep" =>
       /\ tick_pc # "none"
       /\ file.status = "corrupt" =>
             (pending_messages = <<>> /\ working_messages = <<>>)

\* C7: after a termination request no further tick starts and the scheduler
\* stops polling for synchronization: the epoch is never ticked again and no
\* Timer is set again.
C7_NoTickAfterTermination ==
    [][term_requested =>
          /\ statistics'.current_epoch = statistics.current_epoch
          /\ tick_pc' = "timer" => tick_pc = "timer"
      ]_vars

\* C8: a termination request is acted on only between ticks: when
\* cleanup_and_exit runs and flushes the data, no pipeline is in the middle
\* of its passes.
C8_FlushBetweenTicks ==
    [][(~term_requested /\ term_requested') => tick_pc # "work"]_vars

\* C9: at the end of every completed tick the persisted document equals the
\* in-memory data produced by that tick.
C9_PersistedAfterTick ==
    (/\ options.data_dir
     /\ ~term_requested
     /\ tick_pc = "timer"
     /\ mpool_cids.status # "none")
       => file = JsonDump(Data)

\* C10: unless termination is requested the chain of ticks never stops: once
\* the first Timer is set, a Timer is pending or a tick is running.
C10_ChainAlive ==
    (~term_requested /\ tick_pc # "none")
       => tick_pc \in {"timer", "fetch", "work", "sync"}

\* C12: every update of a stored round_fee, after a successful replacement
\* or a too low GasPremium refusal, gives old + min_fee * increase / 100 in
\* linear mode (whatever the current fee), old + old * increase / 100 in
\* exponential mode (strictly more than old for a positive increase), and
\* old itself for any other mode.
C12_FeeUpdate ==
    \A call \in CallSet :
       (call.result \in {"ok", "too_low"}
        /\ call.new_cid \in Keys(working_messages))
       => LET old == call.message.round_fee
              new == Get(working_messages, call.new_cid).round_fee
              mode == options.working_fee_mode
              pct == options.working_fee_increase
          IN  /\ mode = "linear" =>
                    100 * (new - old) = options.min_fee * pct
              /\ mode = "exponential" =>
                    /\ 100 * (new - old) = old * pct
                    /\ (pct > 0 /\ old > 0) => new > old
              /\ mode \notin {"linear", "exponential"} => new = old

\* C12 witness: a linear update of a fee that is not min_fee (0.6 with
\* min_fee 1.0) followed the replacement of b
C12_Witness ==
    \E call \in CallSet :
       /\ call.result = "ok"
       /\ options.working_fee_mode = "linear"
       /\ call.message.round_fee = 6000
       /\ options.min_fee = 10000
       /\ call.new_cid \in Keys(working_messages)
       /\ Get(working_messages, call.new_cid).round_fee = 16000

\* C19: a successful replacement puts the chain under the new id with the
\* start_epoch of the replaced entry, round_epoch = current epoch,
\* last_round_fee = the fee submitted (round_fee capped at max_fee) and
\* total_age = current epoch - start_epoch; the old id is gone, the other
\* entries are as they were, so one entry tracks the chain, and
\* total_replaced goes up by exactly 1.
C19_Replacement ==
    [][(/\ Len(replace_calls') = Len(replace_calls) + 1
        /\ replace_calls'[Len(replace_calls')].result = "ok")
       => LET call == replace_calls'[Len(replace_calls')]
              old == Get(working_messages, call.cid)
              new == Get(working_messages', call.new_cid)
              epoch == statistics.current_epoch
          IN  /\ call.cid \in Keys(working_messages)
              /\ call.message = old
              /\ call.new_cid \notin Keys(working_messages)
              /\ call.new_cid \in Keys(working_messages')
              /\ call.cid \notin Keys(working_messages')
              /\ Keys(working_messages') =
                    (Keys(working_messages) \ {call.cid}) \cup {call.new_cid}
              /\ Len(working_messages') = Len(working_messages)
              /\ \A c \in Keys(working_messages) \ {call.cid} :
                    Get(working_messages', c) = Get(working_messages, c)
              /\ new.start_epoch = old.start_epoch
              /\ new.round_epoch = epoch
              /\ call.fee = IF old.round_fee <= options.max_fee
                            THEN old.round_fee ELSE options.max_fee
              /\ new.last_round_fee = call.fee
              /\ new.total_age = epoch - old.start_epoch
              /\ statistics' = [statistics EXCEPT
                                   !.total_replaced = @ + 1]
              /\ pending_messages' = pending_messages
      ]_vars

\* C19 witness: the second replacement of a chain, two epochs after the
\* chain started
C19_Witness ==
    \E call \in CallSet :
       /\ call.result = "ok"
       /\ call.message.total_age > 0
       /\ call.message.round_epoch > call.message.start_epoch
       /\ call.new_cid \in Keys(working_messages)
       /\ Get(working_messages, call.new_cid).start_epoch
             = call.message.start_epoch
       /\ Get(working_messages, call.new_cid).total_age = 2
       /\ statistics.total_replaced = 2

\* C20: a working entry whose id is in the snapshot of the running tick is
\* left as it is, field for field, by every step of that tick when no
\* round is due (current epoch <= round_epoch + working_wait_epochs), and
\* then no replace command names it; a replace command that fails with an
\* error other than too low GasPremium changes no entry and no statistic,
\* and the round is due again on the next tick.
C20_Untouched ==
    [][/\ \A cid \in Keys(working_messages) :
            LET message == Get(working_messages, cid)
            IN  (/\ tick_pc \in {"fetch", "work"}
                 /\ mpool_cids'.status = "ok"
                 /\ cid \in Range(mpool_cids'.cids)
                 /\ statistics.current_epoch
                       <= message.round_epoch + options.working_wait_epochs)
                => /\ cid \in Keys(working_messages')
                   /\ Get(working_messages', cid) = message
                   /\ \A i \in 1..Len(replace_calls') :
                         replace_calls'[i].cid # cid
       /\ (/\ Len(replace_calls') = Len(replace_calls) + 1
           /\ replace_calls'[Len(replace_calls')].result = "error")
          => LET call == replace_calls'[Len(replace_calls')]
             IN  /\ working_messages' = working_messages
                 /\ pending_messages' = pending_messages
                 /\ statistics' = statistics
                 /\ misc_data' = misc_data
                 /\ Get(working_messages', call.cid) = call.message
                 /\ statistics.current_epoch + 1
                       > call.message.round_epoch
                           + options.working_wait_epochs
      ]_vars

\* C20 witness: a tick has ended in which the replacement of b failed with
\* another error; b is listed and its entry is the one the command saw
C20_Witness ==
    /\ tick_pc = "timer"
    /\ mpool_cids.status = "ok"
    /\ \E call \in CallSet :
          /\ call.result = "error"
          /\ call.cid \in Range(mpool_cids.cids)
          /\ call.cid \in Keys(working_messages)
          /\ Get(working_messages, call.cid) = call.message
          /\ statistics.total_replaced = 0

\* C14: a tick whose listing reports an error changes nothing:
\* pending_messages, working_messages, the counters, maxima and means and
\* both windows are after the pipeline what they were before it, no replace
\* command is issued, and the tick goes on to schedule the next one, which
\* finds the same work.
C14_ListingFailure ==
    [][(/\ tick_pc = "fetch" /\ tick_pc' # "fetch"
        /\ mpool_cids'.status = "failed")
       => /\ pending_messages' = pending_messages
          /\ working_messages' = working_messages
          /\ statistics' = statistics
          /\ misc_data' = misc_data
          /\ replace_calls' = <<>>
          /\ work_list' = <<>>
          /\ tick_pc' = "sync"
      ]_vars

\* C14 witness: a tick whose listing failed has ended with a pending and a
\* working message tracked
C14_Witness ==
    /\ tick_pc = "timer"
    /\ mpool_cids.status = "failed"
    /\ pending_messages # <<>>
    /\ working_messages # <<>>
    /\ replace_calls = <<>>

\* C18: when the working loop finds that a working message has left the
\* mpool, the fee sample appended is its last_round_fee, the age sample
\* appended is the epoch of this tick minus its start_epoch, and max_fee and
\* max_age are the larger of the sample and the maximum so far.
C18_DepartureSamples ==
    [][(/\ tick_pc = "work"
        /\ work_list # <<>>
        /\ work_list' # work_list
        /\ Head(work_list) \notin Range(mpool_cids.cids))
       => LET message == Get(working_messages, Head(work_list))
              fees == misc_data'.fees
              ages == misc_data'.ages
              age == statistics.current_epoch - message.start_epoch
          IN  /\ fees[Len(fees)] = message.last_round_fee
              /\ ages[Len(ages)] = age
              /\ statistics'.max_fee =
                    Max2(statistics.max_fee, message.last_round_fee)
              /\ statistics'.max_age = Max2(statistics.max_age, age)
      ]_vars

\* C13: every departure of a working message leaves each window with at
\* most K entries (K = max_average_fee_epochs, max_average_age_epochs), the
\* new sample last and the oldest entry dropped when the window was full,
\* and avg_fee and avg_age (rounded to 4 and 2 decimals) are the arithmetic
\* mean of the retained samples that departures recorded.  A fee sample is
\* a last_round_fee, at least min_fee > 0, so a 0 in the fee window is the
\* entry the window starts with; both windows have the same K in the
\* starts explored, so that entry is in the age window at the same index.
C13_Windows ==
    [][(/\ tick_pc = "work"
        /\ work_list # <<>>
        /\ work_list' # work_list
        /\ Head(work_list) \notin Range(mpool_cids.cids))
       => LET fees == misc_data'.fees
              ages == misc_data'.ages
              kf == options.max_average_fee_epochs
              ka == options.max_average_age_epochs
              initial == fees[1] = 0
              fee_samples == IF initial THEN Tail(fees) ELSE fees
              age_samples == IF initial THEN Tail(ages) ELSE ages
          IN  /\ Len(fees) <= kf
              /\ Len(ages) <= ka
              /\ fees = IF Len(misc_data.fees) < kf
                        THEN Append(misc_data.fees, fees[Len(fees)])
                        ELSE Append(Tail(misc_data.fees), fees[Len(fees)])
              /\ ages = IF Len(misc_data.ages) < ka
                        THEN Append(misc_data.ages, ages[Len(ages)])
                        ELSE Append(Tail(misc_data.ages), ages[Len(ages)])
              /\ statistics'.avg_fee =
                    RoundDiv(SeqSum(fee_samples), Len(fee_samples))
              /\ statistics'.avg_age =
                    RoundDiv(100 * SeqSum(age_samples), Len(age_samples))
      ]_vars

\* C16: when a tick whose listing succeeded has ended, every key of
\* pending_messages is in that listing, every key of working_messages is in
\* it or is the new id a replace command of this tick returned, and no
\* replace command of the tick names an id that is not listed.
C16_NoLingering ==
    (/\ tick_pc \in {"sync", "timer"}
     /\ mpool_cids.status = "ok")
    => LET listed == Range(mpool_cids.cids)
       IN  /\ Keys(pending_messages) \subseteq listed
           /\ \A cid \in Keys(working_messages) :
                 \/ cid \in listed
                 \/ \E call \in CallSet :
                       call.result = "ok" /\ call.new_cid = cid
           /\ \A call \in CallSet : call.cid \in listed

LiveTimers == WithStatus("waiting") \cup WithStatus("running")

\* at most one Timer is live; a tick is in progress exactly when one
\* callback is executing, and then no Timer is waiting
OneTickAtATime ==
    /\ Cardinality(LiveTimers) <= 1
    /\ Cardinality(WithStatus("waiting")) <= 1
    /\ tick_pc \in {"fetch", "work", "sync"}
          <=> Cardinality(WithStatus("running")) = 1
    /\ tick_pc = "timer" <=> Cardinality(WithStatus("waiting")) = 1

\* C15: at most one tick executes at any time: at most one Timer is
\* outstanding, none while a callback is executing, and a Timer fires only
\* when every callback before it has returned; within a tick the replace
\* commands are issued one after another: a step of the working loop
\* issues at most one, and it has returned before the next step.
C15_SingleTimeline ==
    [][/\ OneTickAtATime
       /\ OneTickAtATime'
       /\ (WithStatus("running")' # WithStatus("running")
           /\ WithStatus("running")' # {})
          => WithStatus("running") = {}
       /\ Len(replace_calls') <= Len(replace_calls) + 1
       /\ Len(replace_calls') = Len(replace_calls) + 1
          => /\ tick_pc = "work"
             /\ Cardinality(WithStatus("running")) = 1
             /\ replace_calls'[Len(replace_calls')].result
                   \in {"ok", "too_low", "error"}
      ]_vars

\* C15 witness: the third tick is executing alone and has issued two
\* replace commands
C15_Witness ==
    /\ worker_threads = <<"finished", "finished", "running">>
    /\ tick_pc = "sync"
    /\ Len(replace_calls) = 2
    /\ replace_calls[1].cid # replace_calls[2].cid

\* C11: while the node stays in sync and every listing succeeds, a listed
\* message is promoted within pending_wait_epochs + 1 ticks of the tick
\* that first saw it, and a listed working message is offered for
\* replacement again and again: no later than working_wait_epochs + 1 ticks
\* after its last successful replacement (or promotion), and at every tick
\* after a failed attempt.  Each tick advances the epoch by one, so at the
\* end of a tick no listed id is still pending past enqueue epoch +
\* pending_wait_epochs, and every listed working message whose round is due
\* has had a replace command in this tick.
C11_Escalation ==
    (tick_pc \in {"sync", "timer"} /\ mpool_cids.status = "ok")
    => LET epoch == statistics.current_epoch
           listed == Range(mpool_cids.cids)
       IN  /\ \A i \in 1..Len(pending_messages) :
                 pending_messages[i].cid \in listed
                 => epoch <= pending_messages[i].epoch
                               + options.pending_wait_epochs
           /\ \A i \in 1..Len(working_messages) :
                 LET message == working_messages[i]
                 IN  (/\ message.cid \in listed
                      /\ epoch > message.round_epoch
                                   + options.working_wait_epochs)
                     => \E call \in CallSet :
                           call.cid = message.cid /\ call.epoch = epoch

\* C21: once calibrated the epoch counter goes up by exactly 1 at a time,
\* at a tick or at a poll of a node that is out of sync; such a poll runs
\* no tick (no listing, no replace command, no change to the tracked
\* messages); and at every tick the counter is the calibrated epoch plus
\* the number of 30 s boundaries passed since the calibration.
C21_EpochClock ==
    [][main_pc # "start" =>
         LET epoch == statistics.current_epoch
             epoch_after == statistics'.current_epoch
         IN  /\ epoch_after # epoch =>
                   /\ epoch_after = epoch + 1
                   /\ tick_pc \in {"timer", "sync"}
             /\ (tick_pc = "sync" /\ epoch_after # epoch) =>
                   /\ tick_pc' = "sync"
                   /\ mpool_cids' = mpool_cids
                   /\ replace_calls' = replace_calls
                   /\ pending_messages' = pending_messages
                   /\ working_messages' = working_messages
                   /\ wall_epoch' = wall_epoch + 1
             /\ (tick_pc = "timer" /\ epoch_after # epoch) =>
                   epoch_after = wall_epoch'
      ]_vars

====
